---- MODULE Spec2Model ----
(***************************************************************************)
(* A model of the IPC library for webview-bun: the host endpoint (class    *)
(* IPC, src/src/ipc.ts) and the webview endpoint (the client script of     *)
(* src/src/webview-client.ts and src/unnamed/part_002), connected by the   *)
(* two one-way primitives webview.eval (host -> webview) and the bound     *)
(* function ipc_send (webview -> host).                                    *)
(*                                                                         *)
(* src/src/ipc.ts holds two definitions of class IPC (lines 12-280 and     *)
(* 295-450) and the client script exists twice (webview-client.ts and      *)
(* part_002).  The variable rev selects the pair that runs: rev = 1 is the *)
(* first definition of each, rev = 2 the second.                           *)
(***************************************************************************)
EXTENDS Integers, Sequences, FiniteSets, TLC

(***************************************************************************)
(* Strings.  A JavaScript string is a sequence of chunks: the three        *)
(* characters the escaping code treats specially, and opaque runs of       *)
(* ordinary characters (no run starts with an escape letter).  Runs are    *)
(* built with \o exactly where the code concatenates.                      *)
(***************************************************************************)
BS == "\\"
SQ == "'"
DQ == "\""

Special == {BS, SQ, DQ}

\* The result that stands for a thrown SyntaxError / a script that does not parse.
BAD == <<"<syntax-error>">>

RECURSIVE ReplaceAll(_, _, _)
\* String.prototype.replace(/c/g, to): every chunk c of s becomes the chunks to.
ReplaceAll(s, c, to) ==
    IF s = <<>> THEN <<>>
    ELSE (IF Head(s) = c THEN to ELSE <<Head(s)>>) \o ReplaceAll(Tail(s), c, to)

\* JSON.stringify of a string's contents: backslash and double quote are escaped.
JsonQuote(s) == ReplaceAll(ReplaceAll(s, BS, <<BS, BS>>), DQ, <<BS, DQ>>)

RECURSIVE JsonUnquote(_)
\* JSON.parse of a string's contents: \\ and \" are unescaped; a bare double
\* quote ends the string early and a backslash before anything else is not
\* JSON, so the whole parse throws (BAD).
JsonUnquote(t) ==
    IF t = <<>> THEN <<>>
    ELSE IF Head(t) = DQ THEN BAD
    ELSE IF Head(t) = BS
         THEN IF Len(t) >= 2 /\ t[2] \in {BS, DQ}
              THEN LET rest == JsonUnquote(Tail(Tail(t)))
                   IN  IF rest = BAD THEN BAD ELSE <<t[2]>> \o rest
              ELSE BAD
    ELSE LET rest == JsonUnquote(Tail(t))
         IN  IF rest = BAD THEN BAD ELSE <<Head(t)>> \o rest

\* The escaping without its second replace: single quotes stay bare.
EscapeEvalBackslashOnly(s) == ReplaceAll(s, BS, <<BS, BS>>)

\* sendToWebView, first approach: messageStr.replace(/\\/g, '\\\\').replace(/'/g, "\\'")
EscapeEval(s) == ReplaceAll(ReplaceAll(s, BS, <<BS, BS>>), SQ, <<BS, SQ>>)

\* sendToWebView, fallback of the first definition: messageStr.replace(/"/g, '\\"')
EscapeFallback(s) == ReplaceAll(s, DQ, <<BS, DQ>>)

RECURSIVE JsLiteral(_)
\* What the webview's JavaScript engine makes of the contents of the
\* single-quoted literal in the evaluated script: \x stands for x; a bare
\* single quote ends the literal early, so the script does not parse (BAD).
JsLiteral(t) ==
    IF t = <<>> THEN <<>>
    ELSE IF Head(t) = SQ THEN BAD
    ELSE IF Head(t) = BS
         THEN IF Len(t) >= 2
              THEN LET rest == JsLiteral(Tail(Tail(t)))
                   IN  IF rest = BAD THEN BAD ELSE <<t[2]>> \o rest
              ELSE BAD
    ELSE LET rest == JsLiteral(Tail(t))
         IN  IF rest = BAD THEN BAD ELSE <<Head(t)>> \o rest

(***************************************************************************)
(* JavaScript values.  Every value is a record tagged by k; a field that   *)
(* is absent from an object is the value Undef.                            *)
(***************************************************************************)
Num(n)   == [k |-> "num", n |-> n]
StrV(s)  == [k |-> "str", s |-> s]
BoolV(b) == [k |-> "bool", b |-> b]
Null     == [k |-> "null"]
Undef    == [k |-> "undef"]
NaNV     == [k |-> "nan"]
\* A value JSON.stringify throws on (a BigInt, a cyclic object).
BigV     == [k |-> "big"]
\* A function of the user's: f names it.
Fn(f)    == [k |-> "fn", f |-> f]
\* What a user's function does when it is invoked: it returns ("ok"), throws,
\* or returns a promise that rejects (an async function that throws).
Behaviour(f) ==
    CASE f = "onThrow"  -> "throws"
      [] f = "onReject" -> "rejects"
      [] OTHER          -> "ok"
\* An object with the properties __callback (cb), id and one more (x).
Obj(cb, id, x) == [k |-> "obj", cb |-> cb, id |-> id, x |-> x]
Arr(a)   == [k |-> "arr", a |-> a]
\* The function handleCall synthesizes for a callback token: it closes over
\* arg.id and over the dispatching call (task).
Proxy(id, task) == [k |-> "proxy", id |-> id, task |-> task]
\* What stands for an exception thrown by a conversion.
Throw    == [k |-> "throw"]

\* { __callback: true, id: callbackId }
Token(callbackId) == Obj(BoolV(TRUE), StrV(callbackId), Undef)

\* JavaScript truthiness, as `arg && arg.__callback && arg.id` reads it.
Truthy(v) ==
    CASE v.k \in {"null", "undef", "nan"} -> FALSE
      [] v.k = "bool" -> v.b
      [] v.k = "num"  -> v.n # 0
      [] v.k = "str"  -> v.s # <<>>
      [] OTHER        -> TRUE

RECURSIVE ToJson(_, _)
\* JSON.stringify of v, as a JSON tree whose strings hold the escaped text.
\* inArr: v is an array element (undefined and functions become null there,
\* and are left out as an object property).
ToJson(v, inArr) ==
    CASE v.k \in {"num", "null", "bool"} -> v
      [] v.k = "str" -> StrV(JsonQuote(v.s))
      [] v.k = "nan" -> Null
      [] v.k \in {"undef", "fn", "proxy"} -> IF inArr THEN Null ELSE Undef
      [] v.k = "obj" ->
           LET cb == ToJson(v.cb, FALSE)
               id == ToJson(v.id, FALSE)
               x  == ToJson(v.x, FALSE)
           IN  IF Throw \in {cb, id, x} THEN Throw ELSE Obj(cb, id, x)
      [] v.k = "arr" ->
           LET a == [i \in DOMAIN v.a |-> ToJson(v.a[i], TRUE)]
           IN  IF \E i \in DOMAIN a : a[i] = Throw THEN Throw ELSE Arr(a)
      [] OTHER -> Throw

\* The string conversions applied to a whole text.
StrMap(mode, s) ==
    CASE mode = "unquote"  -> JsonUnquote(s)
      [] mode = "escape"   -> EscapeEval(s)
      [] mode = "fallback" -> EscapeFallback(s)
      [] mode = "literal"  -> JsLiteral(s)

RECURSIVE TreeMap(_, _)
\* A JSON tree with the conversion mode applied to each of its strings.
TreeMap(mode, j) ==
    CASE j.k = "str" -> StrV(StrMap(mode, j.s))
      [] j.k = "obj" -> Obj(TreeMap(mode, j.cb), TreeMap(mode, j.id), TreeMap(mode, j.x))
      [] j.k = "arr" -> Arr([i \in DOMAIN j.a |-> TreeMap(mode, j.a[i])])
      [] OTHER -> j

RECURSIVE TreeBad(_)
\* Some string of the tree did not convert.
TreeBad(j) ==
    CASE j.k = "str" -> j.s = BAD
      [] j.k = "obj" -> TreeBad(j.cb) \/ TreeBad(j.id) \/ TreeBad(j.x)
      [] j.k = "arr" -> \E i \in DOMAIN j.a : TreeBad(j.a[i])
      [] OTHER -> FALSE

(***************************************************************************)
(* Messages (IPCMessage, src/src/types.ts).  A message is an object with   *)
(* the seven properties the code reads; an absent property is Undef.       *)
(***************************************************************************)
Fields == {"id", "type", "method", "args", "result", "error", "callbackId"}

Message(id, type, method, args, result, error, callbackId) ==
    [id |-> id, type |-> type, method |-> method, args |-> args,
     result |-> result, error |-> error, callbackId |-> callbackId]

T_call     == StrV(<<"call">>)
T_response == StrV(<<"response">>)
T_error    == StrV(<<"error">>)
T_callback == StrV(<<"callback">>)
\* a type no branch of either handleMessage knows
T_ping     == StrV(<<"ping">>)

CallMsg(id, method, args) == Message(StrV(id), T_call, StrV(method), Arr(args), Undef, Undef, Undef)
ResponseMsg(id, result)   == Message(id, T_response, Undef, Undef, result, Undef, Undef)
ErrorMsg(id, error)       == Message(id, T_error, Undef, Undef, Undef, StrV(error), Undef)
CallbackMsg(id, callbackId, args) ==
    Message(StrV(id), T_callback, Undef, Arr(args), Undef, Undef, callbackId)

\* JSON.stringify(message): the text, or Throw.
Stringify(m) ==
    LET t == [f \in Fields |-> ToJson(m[f], FALSE)]
    IN  IF \E f \in Fields : t[f] = Throw THEN Throw ELSE t

MsgMap(mode, t) == [f \in Fields |-> TreeMap(mode, t[f])]
MsgBad(t) == \E f \in Fields : TreeBad(t[f])

\* A payload that is no JSON text at all.
Garbage == [k |-> "garbage"]

\* The text is the JSON of a value that is no object (null, 7).
IsScalar(t) == "k" \in DOMAIN t

\* JSON.parse(text): the message, or Throw when the text is not JSON.
Parse(t) ==
    IF t = Throw \/ t = Garbage THEN Throw
    ELSE IF IsScalar(t) THEN t
    ELSE LET m == MsgMap("unquote", t)
         IN  IF MsgBad(m) THEN Throw ELSE m

\* String(v), as a template literal and String(error) make it.
ToStr(v) ==
    CASE v.k = "str"   -> v.s
      [] v.k = "num"   -> <<ToString(v.n)>>
      [] v.k = "undef" -> <<"undefined">>
      [] v.k = "null"  -> <<"null">>
      [] v.k = "nan"   -> <<"NaN">>
      [] v.k = "bool"  -> IF v.b THEN <<"true">> ELSE <<"false">>
      [] OTHER         -> <<"[object Object]">>

\* The message without the method's name.
NotFoundTextNoMethod(method) == <<"Method not found">>

\* `Method '${method}' not found`
NotFoundText(method) == <<"Method ", SQ>> \o ToStr(method) \o <<SQ, " not found">>

\* The messages of the errors the runtime and the library raise themselves.
E_timeout      == <<"IPC call timeout">>
E_bridge       == <<"IPC bridge not initialized">>
E_notReady     == <<"IPC: Webview not ready">>
E_noWebview    == <<"IPC: Webview not initialized">>
E_stringify    == <<"Do not know how to serialize a BigInt">>
E_eval         == <<"webview_eval failed">>
E_notFunction  == <<"callback is not a function">>
E_notIterable  == <<"args.map is not a function">>
E_input        == <<"Input is required">>

(***************************************************************************)
(* Bounds of the model.                                                    *)
(***************************************************************************)
\* operations of the users and the environment in one run: calls on either
\* side, register / unregister / clear, clock advances, the destruction of
\* the window and messages of page scripts
MaxOps == 2

\* setTimeout(..., 30000) in the client's call()
TimeoutMs == 30000

VARIABLES
    rev,            \* which definition of IPC and of the client script runs
    now,            \* Date.now()
    webview,        \* host: this.webview is set
    isWebViewReady, \* host (first definition): this.isWebViewReady
    destroyed,      \* the webview window is gone: webview.eval throws
    handlers,       \* host: this.handlers, method -> handler
    hCallbacks,     \* host: this.callbacks, callbackId -> function
    hPending,       \* host: this.pendingCalls, id -> the promise's resolve/reject
    ops,            \* operations of the users and the environment so far
    booted,         \* webview: the client script has run (window.ipc exists)
    idCounter,      \* webview: ipc.idCounter
    wCallbacks,     \* webview: ipc.callbacks
    wPending,       \* webview: ipc.pendingCalls
    toHost,         \* payloads handed to ipc_send, not yet received by the host
    toWebview,      \* scripts handed to webview.eval, not yet run
    calls,          \* every call() made: its promise and its timer
    tasks,          \* every Call the host dispatched: the handleCall invocation
    fired,          \* every invocation of a user's callback function, in order
    unhandled,      \* rejections that escaped handleMessage on the host
    regLog,         \* every register / unregister / clear so far, in order
    wCalled         \* the ids of the Call messages the client's handleMessage got

vars == <<rev, now, ops, webview, isWebViewReady, destroyed, handlers, hCallbacks,
          hPending, booted, idCounter, wCallbacks, wPending, toHost, toWebview,
          calls, tasks, fired, unhandled, regLog, wCalled>>

hostVars == <<webview, isWebViewReady, handlers, hCallbacks, hPending, regLog>>
clientVars == <<booted, idCounter, wCallbacks, wPending, wCalled>>

\* A Map as a function on its key set.
Put(map, key, val) == [x \in DOMAIN map \cup {key} |-> IF x = key THEN val ELSE map[x]]
Del(map, key)      == [x \in DOMAIN map \ {key} |-> map[x]]
Empty              == [x \in {} |-> 0]

(***************************************************************************)
(* Handlers.  A handler is a user's async function; the model runs it as a *)
(* program: a sequence of steps, computed from the arguments it received.  *)
(*   await   the handler suspends (await new Promise(setTimeout ...))      *)
(*   cb      it calls its i-th argument with the values vals               *)
(*   return  it returns v; steps after it run detached, from a timer       *)
(*   throw   it throws new Error(e)                                        *)
(***************************************************************************)
Await      == [op |-> "await"]
Cb(i, vs)  == [op |-> "cb", i |-> i, vals |-> vs]
Ret(v)     == [op |-> "return", v |-> v]
Thr(e)     == [op |-> "throw", e |-> e]

\* args[i], undefined when the call passed fewer arguments.
Arg(args, i) == IF i \in DOMAIN args THEN args[i] ELSE Undef

\* a + b
Plus(a, b) ==
    LET n(v) == IF v.k = "num" THEN v.n ELSE 0
        numeric(v) == v.k \in {"num", "null", "undef", "nan"}
    IN  IF a.k \in {"num", "null"} /\ b.k \in {"num", "null"} THEN Num(n(a) + n(b))
        ELSE IF numeric(a) /\ numeric(b) THEN NaNV
        ELSE StrV(ToStr(a) \o ToStr(b))

\* v * 2
Twice(v) ==
    CASE v.k = "num"  -> Num(2 * v.n)
      [] v.k = "null" -> Num(0)
      [] v.k = "bool" -> Num(IF v.b THEN 2 ELSE 0)
      [] OTHER        -> NaNV

\* Math.round(((i + 1) / n) * 100), i counted from 1 here.
Progress(i, n) == (200 * i + n) \div (2 * n)

\* A handler an application registers: async (x) => x
P_echo(args) == <<Ret(Arg(args, 1))>>

\* A handler an application registers: async (a, b) => a + b
P_sum(args) == <<Ret(Plus(Arg(args, 1), Arg(args, 2)))>>

\* processWithCallback: one await and one callback(progress) per item of data,
\* then { success: true, processed: data.length } (processed is property x).
P_processWithCallback(args) ==
    LET data == Arg(args, 1)
    IN  IF data.k \in {"undef", "null"}
        THEN <<Thr(<<"Cannot read properties of undefined (reading ", SQ, "length", SQ, ")">>)>>
        ELSE IF data.k # "arr" THEN <<Ret(Obj(Undef, Undef, Undef))>>
        ELSE LET n == Len(data.a)
             IN  [j \in 1 .. 2 * n |->
                     IF j % 2 = 1 THEN Await
                     ELSE Cb(2, <<Num(Progress(j \div 2, n))>>)]
                 \o <<Ret(Obj(Undef, Undef, Num(n)))>>

\* complexOperation: params.value is property x of params; the object handed
\* to onSuccess is { value: params.value * 2 } and the result { success }.
P_complexOperation(args) ==
    LET params == Arg(args, 1)
    IN  IF params.k \in {"undef", "null"}
        THEN <<Thr(<<"Cannot read properties of undefined (reading ", SQ, "value", SQ, ")">>)>>
        ELSE LET value == IF params.k = "obj" THEN params.x ELSE Undef
             IN  IF ~Truthy(value)
                 THEN <<Cb(3, <<StrV(<<"Value is required">>)>>), Ret(Obj(Undef, Undef, BoolV(FALSE)))>>
                 ELSE IF Arg(args, 2).k = "proxy"
                 THEN <<Cb(2, <<Obj(Undef, Undef, Twice(value))>>), Ret(Obj(Undef, Undef, BoolV(TRUE)))>>
                 ELSE <<Cb(3, <<StrV(E_notFunction)>>), Ret(Obj(Undef, Undef, BoolV(FALSE)))>>

\* README "Custom Error Handling": throws when input is falsy, else awaits the
\* task and returns its result (the input).
P_riskyOperation(args) ==
    IF ~Truthy(Arg(args, 1)) THEN <<Thr(E_input)>>
    ELSE <<Await, Ret(Arg(args, 1))>>

\* A handler that keeps the callback: it returns at once and calls it later,
\* async (cb) => { setTimeout(() => cb("tick"), 0); return "ok" }
P_subscribe(args) == <<Ret(StrV(<<"ok">>)), Await, Cb(1, <<StrV(<<"tick">>)>>)>>

Impls == {"echo", "sum", "processWithCallback", "complexOperation", "riskyOperation", "subscribe"}

\* handler.handler(...processedArgs)
Program(impl, args) ==
    CASE impl = "echo"                -> P_echo(args)
      [] impl = "sum"                 -> P_sum(args)
      [] impl = "processWithCallback" -> P_processWithCallback(args)
      [] impl = "complexOperation"    -> P_complexOperation(args)
      [] impl = "riskyOperation"      -> P_riskyOperation(args)
      [] impl = "subscribe"           -> P_subscribe(args)

(***************************************************************************)
(* The host endpoint: sending.                                             *)
(***************************************************************************)
\* Math.random().toString(36).substr(2, 9): the suffixes the model draws from.
Rnd == {"k3x", "p7q"}

\* IPC.generateId: 'msg_' + Date.now() + '_' + random suffix
HostGenerateId(r) == <<"msg_" \o ToString(now) \o "_" \o r>>

\* IPC.sendToWebView(message) with q the scripts already handed to eval.
\* thrown: the call throws e.  placed: a script reached the webview.
\* After the window is destroyed webview.eval throws: the first definition
\* catches that, tries its setTimeout fallback (which throws as well) and
\* returns normally; the second definition lets it propagate.
sendToWebView(q, message) ==
    LET text == Stringify(message)
    IN  IF ~webview
        THEN [thrown |-> TRUE, e |-> E_noWebview, placed |-> FALSE, q |-> q]
        ELSE IF text = Throw
        THEN [thrown |-> TRUE, e |-> E_stringify, placed |-> FALSE, q |-> q]
        ELSE IF destroyed
        THEN [thrown |-> rev = 2, e |-> E_eval, placed |-> FALSE, q |-> q]
        ELSE [thrown |-> FALSE, e |-> <<>>, placed |-> TRUE,
              q |-> Append(q, MsgMap("escape", text))]

\* The id of a Callback message: generateId() too.  No receiver reads it, so
\* the model fixes its random suffix.
CallbackMsgId == HostGenerateId(CHOOSE r \in Rnd : TRUE)

(***************************************************************************)
(* The host endpoint: handleCall.  A task is one invocation of handleCall: *)
(*   n            its index in tasks                                       *)
(*   at           the length of regLog when it was dispatched              *)
(*   id, method   the Call's fields                                        *)
(*   impl         the handler looked up ("none": not found)                *)
(*   args         processedArgs                                            *)
(*   prog         the handler's steps still to run                         *)
(*   phase        "suspended" at an await of the handler, "detached" when  *)
(*                the handler has returned and a timer of its still runs,  *)
(*                "done" otherwise                                         *)
(*   outcome      "running", "returned", "threw", "notfound"               *)
(*   ret          the value returned, or the message thrown                *)
(*   sent         the Response / Error messages that reached the webview   *)
(*   proxyLog     the invocations of callback proxies, in order; seq is    *)
(*                the position among the invocations of all tasks          *)
(*   atReturn     the length of proxyLog when the handler settled          *)
(*   escaped      an exception left handleCall (an unhandled rejection)    *)
(*   uncaught     an exception left a detached timer of the handler        *)
(***************************************************************************)
NewTask(id, method, impl, args, prog) ==
    [n |-> Len(tasks) + 1, at |-> Len(regLog), id |-> id, method |-> method, impl |-> impl, args |-> args, prog |-> prog,
     phase |-> "done", outcome |-> "running", ret |-> Undef, sent |-> <<>>,
     proxyLog |-> <<>>, atReturn |-> 0, escaped |-> FALSE, uncaught |-> FALSE]

\* A catch block that sends the Error and throws the failure again.
SendErrorRethrow(t, q, e) ==
    LET r == sendToWebView(q, ErrorMsg(t.id, e))
    IN  [t |-> [t EXCEPT !.phase = "done", !.prog = <<>>,
                         !.escaped = TRUE,
                         !.sent = IF r.placed THEN Append(@, [type |-> "error", v |-> StrV(e)])
                                  ELSE @],
         q |-> r.q]

\* The catch block of handleCall, and the not-found branch: send an Error.
SendError(t, q, e) ==
    LET r == sendToWebView(q, ErrorMsg(t.id, e))
    IN  [t |-> [t EXCEPT !.phase = "done", !.prog = <<>>,
                         !.escaped = r.thrown,
                         !.sent = IF r.placed THEN Append(@, [type |-> "error", v |-> StrV(e)])
                                  ELSE @],
         q |-> r.q]

\* The catch block sending String(error) for an Error: "Error: " + message.
FailWithPrefix(t, q, e) ==
    SendError([t EXCEPT !.outcome = "threw", !.ret = StrV(e),
                        !.atReturn = Len(t.proxyLog)], q, <<"Error: ">> \o e)

\* The handler threw or its promise rejected with new Error(e).
Fail(t, q, e) ==
    SendError([t EXCEPT !.outcome = "threw", !.ret = StrV(e),
                        !.atReturn = Len(t.proxyLog)], q, e)

\* The Response followed by an Error although the Response was sent.
CompleteAlsoError(t, q, v) ==
    LET r  == sendToWebView(q, ResponseMsg(t.id, v))
        t1 == [t EXCEPT !.outcome = "returned", !.ret = v,
                        !.atReturn = Len(t.proxyLog), !.phase = "done",
                        !.sent = IF r.placed THEN Append(@, [type |-> "response", v |-> v])
                                 ELSE @]
    IN  SendError(t1, r.q, E_eval)

\* The handler returned v: send the Response; a throw of that send is caught
\* by the same catch block.
Complete(t, q, v) ==
    LET r  == sendToWebView(q, ResponseMsg(t.id, v))
        t1 == [t EXCEPT !.outcome = "returned", !.ret = v,
                        !.atReturn = Len(t.proxyLog), !.phase = "done"]
    IN  IF r.thrown THEN SendError(t1, q, r.e)
        ELSE [t |-> [t1 EXCEPT !.sent = IF r.placed
                                        THEN Append(@, [type |-> "response", v |-> v])
                                        ELSE @],
              q |-> r.q]

\* An exception inside the handler's code: before the handler settled it
\* rejects the handler's promise; in a detached timer it is uncaught.
Raise(t, q, e) ==
    IF t.outcome = "running" THEN Fail(t, q, e)
    ELSE [t |-> [t EXCEPT !.phase = "done", !.prog = <<>>, !.uncaught = TRUE], q |-> q]

\* The number of proxy invocations so far, those of t (a task in progress)
\* counted from t itself.
ProxyCount(t) ==
    Cardinality(UNION {{i} \X DOMAIN tasks[i].proxyLog : i \in DOMAIN tasks \ {t.n}})
    + Len(t.proxyLog)

RECURSIVE Exec(_, _)
\* Run the handler of task t from its next step to its next await or its end.
Exec(t, q) ==
    IF t.prog = <<>> THEN [t |-> [t EXCEPT !.phase = "done"], q |-> q]
    ELSE
    LET op   == Head(t.prog)
        rest == Tail(t.prog)
    IN  CASE op.op = "await" ->
               [t |-> [t EXCEPT !.prog = rest,
                                !.phase = IF t.outcome = "running" THEN "suspended"
                                          ELSE "detached"],
                q |-> q]
          [] op.op = "cb" ->
               LET f == Arg(t.args, op.i)
               IN  IF f.k # "proxy" THEN Raise([t EXCEPT !.prog = rest], q, E_notFunction)
                   ELSE LET r  == sendToWebView(q,
                                      CallbackMsg(CallbackMsgId, f.id, op.vals))
                            t1 == [t EXCEPT !.prog = rest,
                                            !.proxyLog = Append(@, [callbackId |-> f.id,
                                                                    args |-> op.vals,
                                                                    placed |-> r.placed,
                                                                    seq |-> ProxyCount(t) + 1])]
                        IN  IF r.thrown THEN Raise(t1, q, r.e) ELSE Exec(t1, r.q)
          [] op.op = "return" ->
               LET c == Complete([t EXCEPT !.prog = rest], q, op.v)
               IN  IF rest = <<>> \/ c.t.prog = <<>> THEN c ELSE Exec(c.t, c.q)
          [] op.op = "throw" -> Raise([t EXCEPT !.prog = rest], q, op.e)

\* The callback-token test of handleCall: arg && typeof arg === 'object' &&
\* arg.__callback && arg.id (first definition), arg?.__callback && arg.id
\* (second); a JSON value has these properties only when it is an object.
IsCallbackToken(arg) == arg.k = "obj" /\ Truthy(arg.cb) /\ Truthy(arg.id)

\* args.map(arg => token ? proxy : arg); n is the index of the task.
ProcessedArgs(args, n) ==
    [i \in DOMAIN args |-> IF IsCallbackToken(args[i]) THEN Proxy(args[i].id, n) ELSE args[i]]

\* if (!id || !method) return   (first definition only)
CallGuard(message) == rev = 1 /\ (~Truthy(message.id) \/ ~Truthy(message.method))

\* this.handlers.get(method)
HasHandler(method) == method.k = "str" /\ method.s \in DOMAIN handlers

\* handleCall(message): the task it leaves behind and the scripts sent.
handleCall(message, q) ==
    LET n    == Len(tasks) + 1
        args == IF message.args.k = "undef" THEN Arr(<<>>) ELSE message.args
    IN  IF ~HasHandler(message.method)
        THEN SendError([NewTask(message.id, message.method, "none", <<>>, <<>>)
                            EXCEPT !.outcome = "notfound"],
                       q, NotFoundText(message.method))
        ELSE LET impl == handlers[message.method.s]
             IN  IF args.k # "arr"
                 THEN Fail(NewTask(message.id, message.method, impl, <<>>, <<>>), q, E_notIterable)
                 ELSE LET pa == ProcessedArgs(args.a, n)
                      IN  Exec(NewTask(message.id, message.method, impl, pa, Program(impl, pa)), q)

(***************************************************************************)
(* Calls.  A call is one invocation of call() on either side:              *)
(*   side      "w" (window.ipc.call) or "h" (IPC.call)                     *)
(*   id        the id generated for it ("" when none was)                  *)
(*   state     of the promise: "pending", "resolved", "rejected"           *)
(*   value     what it resolved to, or the message it rejected with        *)
(*   by        what settled it: "response", "error", "timeout", "throw"    *)
(*   timer     of its setTimeout: "none", "armed", "cleared", "fired"      *)
(*   deadline  when the timer is due                                       *)
(*   fires     how often its resolve or reject function has been invoked   *)
(*   removed   how often its pendingCalls entry has been deleted           *)
(*   cbIds     the callback id made for each argument that is a function   *)
(***************************************************************************)
\* 'cb_' + method + '_' + index + '_' + Date.now(), index counted from 0
CallbackId(method, i) == <<"cb_">> \o method \o <<"_" \o ToString(i - 1) \o "_" \o ToString(now)>>

NewCall(side, id, method, args, timer) ==
    [side |-> side, id |-> id, method |-> method, args |-> args, state |-> "pending",
     value |-> Undef, by |-> "none", timer |-> timer, deadline |-> now + TimeoutMs,
     fires |-> 0, removed |-> 0,
     cbIds |-> [i \in {j \in DOMAIN args : args[j].k = "fn"} |-> CallbackId(method, i)]]

\* A promise settles once: later resolve / reject invocations change nothing.
Settle(c, state, value, by) ==
    IF c.state = "pending"
    THEN [c EXCEPT !.state = state, !.value = value, !.by = by]
    ELSE c

\* The wrapped resolve / reject without its clearTimeout.
ClearTimeoutForgotten(c) == c

\* clearTimeout(timeout) in the wrapped resolve / reject of the client.
ClearTimeout(c) == [c EXCEPT !.timer = IF @ = "armed" THEN "cleared" ELSE @]

\* new Error(message.error).message
ErrText(v) == IF v.k = "undef" THEN <<>> ELSE ToStr(v)

\* A marshaling that puts a token in the place of every argument that is a
\* function or an object.
MarshalObjects(method, args) ==
    [i \in DOMAIN args |-> IF args[i].k \in {"fn", "obj"}
                           THEN Token(CallbackId(method, i)) ELSE args[i]]

\* args.map((arg, index) => typeof arg === 'function' ? token : arg)
Marshal(method, args) ==
    [i \in DOMAIN args |-> IF args[i].k = "fn" THEN Token(CallbackId(method, i)) ELSE args[i]]

\* this.callbacks after the callbacks.set of every function argument (the
\* ids of one call differ in their index).
Registered(callbacks, method, args) ==
    LET fns == {i \in DOMAIN args : args[i].k = "fn"}
        ids == {CallbackId(method, i) : i \in fns}
    IN  [x \in DOMAIN callbacks \cup ids |->
            IF x \in ids
            THEN args[CHOOSE i \in fns : CallbackId(method, i) = x].f
            ELSE callbacks[x]]

\* pendingCalls.delete(id): the call that owned the entry counts a removal.
Removed(cs, pending, id) ==
    IF id \in DOMAIN pending
    THEN [cs EXCEPT ![pending[id]].removed = @ + 1]
    ELSE cs

(***************************************************************************)
(* The webview endpoint (the client script).                               *)
(***************************************************************************)
\* ipc.generateId: 'msg_' + (++this.idCounter) + '_' + Date.now()
ClientGenerateId == <<"msg_" \o ToString(idCounter + 1) \o "_" \o ToString(now)>>

\* A client that takes the bridge for bound whatever the host did.
BridgeAssumed == TRUE

\* typeof window.ipc_send === 'function': the host bound it.
BridgeReady == webview

\* ipc.handleMessage(message) in the webview: the client's tables, the calls
\* and the callback log after it.
ClientHandle(message) ==
    LET known == message.id.k = "str" /\ message.id.s \in DOMAIN wPending
        n     == wPending[message.id.s]
        cbOk  == message.callbackId.k = "str" /\ message.callbackId.s \in DOMAIN wCallbacks
    IN  CASE message.type = T_response /\ known ->
               \* pending.resolve(result): clearTimeout, resolve; then delete
               /\ calls' = Removed([calls EXCEPT ![n] =
                               [ClearTimeout(Settle(@, "resolved", message.result, "response"))
                                   EXCEPT !.fires = @ + 1]],
                               wPending, message.id.s)
               /\ wPending' = Del(wPending, message.id.s)
               /\ UNCHANGED <<wCallbacks, wCalled, fired>>
          [] message.type = T_error /\ known ->
               /\ calls' = Removed([calls EXCEPT ![n] =
                               [ClearTimeout(Settle(@, "rejected", StrV(ErrText(message.error)), "error"))
                                   EXCEPT !.fires = @ + 1]],
                               wPending, message.id.s)
               /\ wPending' = Del(wPending, message.id.s)
               /\ UNCHANGED <<wCallbacks, wCalled, fired>>
          [] message.type = T_callback /\ cbOk ->
               \* callback(...(message.args || [])): a throw is caught (by the
               \* try around the invocation, or by the one of ipc_onmessage);
               \* the promise the callback returns is dropped, so its rejection
               \* is nobody's (escaped)
               /\ fired' = Append(fired, [side |-> "w", f |-> wCallbacks[message.callbackId.s],
                                          callbackId |-> message.callbackId.s,
                                          args |-> IF message.args.k = "arr"
                                                   THEN message.args.a ELSE <<>>,
                                          escaped |-> Behaviour(wCallbacks[message.callbackId.s])
                                                      = "rejects"])
               /\ UNCHANGED <<wCallbacks, wPending, wCalled, calls>>
          [] message.type = T_call ->
               \* no branch of handleMessage takes a Call: it is dropped
               /\ wCalled' = wCalled \cup {message.id}
               /\ UNCHANGED <<wCallbacks, wPending, calls, fired>>
          [] OTHER -> UNCHANGED <<wCallbacks, wPending, wCalled, calls, fired>>

\* An ipc_onmessage that forgets every pending call when a reply names an id
\* it does not know.
ClientOnMessageForgetful(text) ==
    LET m == Parse(text)
    IN  IF m = Throw \/ IsScalar(m)
        THEN UNCHANGED <<wCallbacks, wPending, wCalled, calls, fired>>
        ELSE IF /\ m.type \in {T_response, T_error}
                /\ ~(m.id.k = "str" /\ m.id.s \in DOMAIN wPending)
        THEN /\ wPending' = Empty
             /\ UNCHANGED <<wCallbacks, wCalled, calls, fired>>
        ELSE ClientHandle(m)

\* An ipc_onmessage that takes a message of any other type for a Call.
ClientOnMessageCallByDefault(text) ==
    LET m == Parse(text)
    IN  IF m = Throw \/ IsScalar(m)
        THEN UNCHANGED <<wCallbacks, wPending, wCalled, calls, fired>>
        ELSE IF m.type \notin {T_call, T_response, T_error, T_callback}
        THEN /\ wCalled' = wCalled \cup {m.id}
             /\ UNCHANGED <<wCallbacks, wPending, calls, fired>>
        ELSE ClientHandle(m)

\* window.ipc_onmessage(messageStr): parse inside try / catch, then dispatch.
ClientOnMessage(text) ==
    IF Parse(text) = Throw
    THEN UNCHANGED <<wCallbacks, wPending, wCalled, calls, fired>>
    ELSE IF IsScalar(Parse(text))
    THEN \* null: message.type throws inside the try; 7: message.type is undefined
         UNCHANGED <<wCallbacks, wPending, wCalled, calls, fired>>
    ELSE ClientHandle(Parse(text))

M_echo     == <<"echo">>
M_process  == <<"processWithCallback">>
M_complex  == <<"complexOperation">>
M_risky    == <<"riskyOperation">>
M_sub      == <<"subscribe">>
M_missing  == <<"missing">>
M_render   == <<"render">>

\* The registrations an application makes right after it constructs the IPC
\* object, as the example application does.
AppRegistrations ==
    <<[op |-> "register", method |-> M_echo, impl |-> "echo"],
      [op |-> "register", method |-> M_process, impl |-> "processWithCallback"],
      [op |-> "register", method |-> M_complex, impl |-> "complexOperation"],
      [op |-> "register", method |-> M_risky, impl |-> "riskyOperation"],
      [op |-> "register", method |-> M_sub, impl |-> "subscribe"]>>

\* Map.set / Map.delete / Map.clear on this.handlers
Apply(map, e) ==
    CASE e.op = "register"   -> Put(map, e.method, e.impl)
      [] e.op = "unregister" -> Del(map, e.method)
      [] e.op = "clear"      -> Empty

RECURSIVE Active(_)
\* this.handlers after the operations of log on an empty registry.
Active(log) ==
    IF log = <<>> THEN Empty
    ELSE Apply(Active(SubSeq(log, 1, Len(log) - 1)), log[Len(log)])

\* constructor + setupWebViewBridge: with a webview the host binds ipc_send and
\* (first definition) sets isWebViewReady; without one it does neither.  The
\* run starts either there or after the application's registrations.
Init ==
    /\ rev \in {1, 2}
    /\ now = 0
    /\ ops = 0
    /\ webview \in BOOLEAN
    /\ isWebViewReady = webview
    /\ destroyed = FALSE
    /\ regLog \in {<<>>, AppRegistrations}
    /\ handlers = Active(regLog)
    /\ wCalled = {}
    /\ hCallbacks = Empty
    /\ hPending = Empty
    /\ booted = FALSE
    /\ idCounter = 0
    /\ wCallbacks = Empty
    /\ wPending = Empty
    /\ toHost = <<>>
    /\ toWebview = <<>>
    /\ calls = <<>>
    /\ tasks = <<>>
    /\ fired = <<>>
    /\ unhandled = 0

(***************************************************************************)
(* The inputs the model draws from.                                        *)
(***************************************************************************)
\* register(method, handler): each method with the handler of its name, and
\* "echo" also with the handler sum (a replacement).
Registrable ==
    {<<M_echo, "echo">>, <<M_echo, "sum">>,
     <<M_process, "processWithCallback">>, <<M_complex, "complexOperation">>,
     <<M_risky, "riskyOperation">>, <<M_sub, "subscribe">>}

\* a string with every character the escaping code treats specially
Tricky == StrV(<<"it", SQ, "s ", DQ, "q", DQ, " ", BS>>)

\* { __callback: 1, id: 5, x: onNested }: an object of the page's own whose
\* __callback and id are truthy but no true and no string, with a function
\* nested in it.
LooksLikeToken == Obj(Num(1), Num(5), Fn("onNested"))

\* window.ipc.call(method, ...args) as the page issues it
WInputs ==
    {<<M_echo, <<LooksLikeToken>> >>,
     <<M_echo, <<Tricky>> >>,
     <<M_process, <<Arr(<<Num(1), Num(2)>>), Fn("onProgress")>> >>,
     <<M_process, <<Arr(<<Num(1)>>)>> >>,
     <<M_process, <<Arr(<<Num(1)>>), Fn("onOther")>> >>,
     <<M_complex, <<Obj(Undef, Undef, StrV(<<"abc">>)), Fn("onThrow"), Fn("onError")>> >>,
     <<M_risky, <<Null>> >>,
     <<M_sub, <<Fn("onReject")>> >>,
     <<M_missing, <<>> >>}

\* ipc.call(method, ...args) as the host issues it
HInputs ==
    {<<M_render, <<Num(1)>> >>,
     <<M_render, <<Fn("onReject")>> >>}

Side(sd) == {i \in DOMAIN calls : calls[i].side = sd}

(***************************************************************************)
(* Actions of the environment.                                             *)
(***************************************************************************)
\* Time passes: Date.now() is observed one timeout window later.
Tick ==
    /\ ops < MaxOps
    /\ ops' = ops + 1
    /\ now' = now + TimeoutMs
    /\ UNCHANGED <<rev, destroyed, hostVars, clientVars, toHost, toWebview, calls, tasks,
                   fired, unhandled>>

\* The page runs the client script (getInitScript): window.ipc and
\* window.ipc_onmessage exist from now on.
Boot ==
    /\ ~booted /\ ~destroyed
    /\ booted' = TRUE
    /\ UNCHANGED <<rev, now, ops, destroyed, hostVars, idCounter, wCallbacks, wPending, wCalled,
                   toHost, toWebview, calls, tasks, fired, unhandled>>

\* The webview window is destroyed: the page is gone and eval throws.
Destroy ==
    /\ ~destroyed
    /\ ops < MaxOps
    /\ ops' = ops + 1
    /\ destroyed' = TRUE
    /\ UNCHANGED <<rev, now, hostVars, clientVars, toHost, toWebview, calls, tasks,
                   fired, unhandled>>

(***************************************************************************)
(* Actions of the webview endpoint.                                        *)
(***************************************************************************)
\* window.ipc.call(method, ...args): the promise executor sets the pending
\* entry, starts the timer, marshals the arguments and sends; a throw of
\* send() rejects the promise and undoes nothing.
WCall(method, args) ==
    LET id   == ClientGenerateId
        n    == Len(calls) + 1
        text == Stringify(CallMsg(id, method, Marshal(method, args)))
        c    == NewCall("w", id, method, args, "armed")
    IN  /\ booted /\ ~destroyed
        /\ ops < MaxOps
        /\ ops' = ops + 1
        /\ idCounter' = idCounter + 1
        /\ wPending' = Put(wPending, id, n)
        /\ wCallbacks' = Registered(wCallbacks, method, args)
        /\ IF ~BridgeReady
           THEN /\ calls' = Append(calls, Settle(c, "rejected", StrV(E_bridge), "throw"))
                /\ UNCHANGED toHost
           ELSE IF text = Throw
           THEN /\ calls' = Append(calls, Settle(c, "rejected", StrV(E_stringify), "throw"))
                /\ UNCHANGED toHost
           ELSE /\ calls' = Append(calls, c)
                /\ toHost' = Append(toHost, text)
        /\ UNCHANGED <<rev, now, destroyed, hostVars, booted, wCalled, toWebview, tasks,
                       fired, unhandled>>

\* A timeout handler that also releases the callbacks of the call.
WTimeoutReleasing(n) ==
    /\ ~destroyed
    /\ calls[n].side = "w" /\ calls[n].timer = "armed"
    /\ now >= calls[n].deadline
    /\ calls' = Removed([calls EXCEPT ![n] =
                    [Settle(@, "rejected", StrV(E_timeout), "timeout")
                        EXCEPT !.timer = "fired", !.fires = @ + 1]],
                    wPending, calls[n].id)
    /\ wPending' = Del(wPending, calls[n].id)
    /\ wCallbacks' = [x \in DOMAIN wCallbacks \ {calls[n].cbIds[i] : i \in DOMAIN calls[n].cbIds}
                        |-> wCallbacks[x]]
    /\ UNCHANGED <<rev, now, ops, destroyed, hostVars, booted, idCounter,
                   wCalled, toHost, toWebview, tasks, fired, unhandled>>

\* A timeout handler that tells the host that the call was given up.
WTimeoutNotifying(n) ==
    /\ ~destroyed
    /\ calls[n].side = "w" /\ calls[n].timer = "armed"
    /\ now >= calls[n].deadline
    /\ calls' = Removed([calls EXCEPT ![n] =
                    [Settle(@, "rejected", StrV(E_timeout), "timeout")
                        EXCEPT !.timer = "fired", !.fires = @ + 1]],
                    wPending, calls[n].id)
    /\ wPending' = Del(wPending, calls[n].id)
    /\ toHost' = Append(toHost, Stringify(ErrorMsg(StrV(calls[n].id), E_timeout)))
    /\ UNCHANGED <<rev, now, ops, destroyed, hostVars, booted, idCounter, wCallbacks,
                   wCalled, toWebview, tasks, fired, unhandled>>

\* The timer of call n fires: pendingCalls.delete(id); reject(timeout error).
WTimeout(n) ==
    /\ ~destroyed
    /\ calls[n].side = "w" /\ calls[n].timer = "armed"
    /\ now >= calls[n].deadline
    /\ calls' = Removed([calls EXCEPT ![n] =
                    [Settle(@, "rejected", StrV(E_timeout), "timeout")
                        EXCEPT !.timer = "fired", !.fires = @ + 1]],
                    wPending, calls[n].id)
    /\ wPending' = Del(wPending, calls[n].id)
    /\ UNCHANGED <<rev, now, ops, destroyed, hostVars, booted, idCounter, wCallbacks,
                   wCalled, toHost, toWebview, tasks, fired, unhandled>>

\* The webview runs the next evaluated script:
\* window.ipc_onmessage && window.ipc_onmessage('...').  A literal that does
\* not parse is a syntax error and nothing runs.
WDeliver ==
    /\ toWebview # <<>> /\ ~destroyed
    /\ toWebview' = Tail(toWebview)
    /\ LET text == MsgMap("literal", Head(toWebview))
       IN  IF MsgBad(text) \/ ~booted
           THEN UNCHANGED <<wCallbacks, wPending, wCalled, calls, fired>>
           ELSE ClientOnMessage(text)
    /\ UNCHANGED <<rev, now, ops, destroyed, hostVars, booted, idCounter, toHost, tasks,
                   unhandled>>

(***************************************************************************)
(* Actions of the host endpoint.                                           *)
(***************************************************************************)
\* register that keeps the handler a method already has.
registerKeepFirst(method, impl) ==
    /\ ops < MaxOps
    /\ ops' = ops + 1
    /\ handlers' = IF method \in DOMAIN handlers THEN handlers ELSE Put(handlers, method, impl)
    /\ regLog' = Append(regLog, [op |-> "register", method |-> method, impl |-> impl])
    /\ UNCHANGED <<rev, now, destroyed, webview, isWebViewReady, hCallbacks, hPending,
                   clientVars, toHost, toWebview, calls, tasks, fired, unhandled>>

\* getMethods(): Array.from(this.handlers.keys()), each key once
getMethods == DOMAIN handlers

\* hasMethod(method): this.handlers.has(method)
hasMethod(method) == method \in DOMAIN handlers

\* register(method, handler): this.handlers.set(method, { handler, description })
register(method, impl) ==
    /\ ops < MaxOps
    /\ ops' = ops + 1
    /\ handlers' = Put(handlers, method, impl)
    /\ regLog' = Append(regLog, [op |-> "register", method |-> method, impl |-> impl])
    /\ UNCHANGED <<rev, now, destroyed, webview, isWebViewReady, hCallbacks, hPending,
                   clientVars, toHost, toWebview, calls, tasks, fired, unhandled>>

\* An unregister that empties the whole registry.
unregisterAll(method) ==
    /\ ops < MaxOps
    /\ ops' = ops + 1
    /\ handlers' = Empty
    /\ regLog' = Append(regLog, [op |-> "unregister", method |-> method, impl |-> ""])
    /\ UNCHANGED <<rev, now, destroyed, webview, isWebViewReady, hCallbacks, hPending,
                   clientVars, toHost, toWebview, calls, tasks, fired, unhandled>>

\* unregister(method): this.handlers.delete(method)
unregister(method) ==
    /\ ops < MaxOps
    /\ ops' = ops + 1
    /\ handlers' = Del(handlers, method)
    /\ regLog' = Append(regLog, [op |-> "unregister", method |-> method, impl |-> ""])
    /\ UNCHANGED <<rev, now, destroyed, webview, isWebViewReady, hCallbacks, hPending,
                   clientVars, toHost, toWebview, calls, tasks, fired, unhandled>>

\* A clear() that leaves the pending-call table as it is.
clearKeepPending ==
    /\ ops < MaxOps
    /\ ops' = ops + 1
    /\ handlers' = Empty
    /\ hCallbacks' = Empty
    /\ regLog' = Append(regLog, [op |-> "clear", method |-> <<>>, impl |-> ""])
    /\ UNCHANGED <<rev, now, destroyed, webview, isWebViewReady, hPending, clientVars,
                   toHost, toWebview, calls, tasks, fired, unhandled>>

\* clear(): the three maps are emptied; no promise is settled.
clear ==
    /\ ops < MaxOps
    /\ ops' = ops + 1
    /\ handlers' = Empty
    /\ hCallbacks' = Empty
    /\ hPending' = Empty
    /\ regLog' = Append(regLog, [op |-> "clear", method |-> <<>>, impl |-> ""])
    /\ calls' = [n \in DOMAIN calls |->
                    IF calls[n].id \in DOMAIN hPending /\ hPending[calls[n].id] = n
                    THEN [calls[n] EXCEPT !.removed = @ + 1] ELSE calls[n]]
    /\ UNCHANGED <<rev, now, destroyed, webview, isWebViewReady, clientVars, toHost,
                   toWebview, tasks, fired, unhandled>>

\* A call() that sends the Call and registers no pending entry for it.
callSendOnly(method, args, r) ==
    LET id  == HostGenerateId(r)
        snd == sendToWebView(toWebview, CallMsg(id, method, Marshal(method, args)))
        c   == NewCall("h", id, method, args, "none")
    IN  /\ ops < MaxOps
        /\ ops' = ops + 1
        /\ hCallbacks' = Registered(hCallbacks, method, args)
        /\ toWebview' = snd.q
        /\ calls' = Append(calls, IF snd.thrown
                                  THEN Settle(c, "rejected", StrV(snd.e), "throw")
                                  ELSE c)
        /\ UNCHANGED <<rev, now, destroyed, webview, isWebViewReady, handlers, regLog,
                       hPending, clientVars, toHost, tasks, fired, unhandled>>

\* IPC.call(method, ...args) with random suffix r.  First definition: throws
\* at once when the webview is not ready.  Otherwise: callbacks are stored, the
\* pending entry is set and the Call is sent; a throw of sendToWebView rejects
\* the promise and undoes nothing.  No timer is started.
call(method, args, r) ==
    LET id  == HostGenerateId(r)
        n   == Len(calls) + 1
        snd == sendToWebView(toWebview, CallMsg(id, method, Marshal(method, args)))
        c   == NewCall("h", id, method, args, "none")
    IN  /\ ops < MaxOps
        /\ ops' = ops + 1
        /\ IF rev = 1 /\ ~isWebViewReady
           THEN /\ calls' = Append(calls, Settle([c EXCEPT !.id = <<>>], "rejected",
                                                 StrV(E_notReady), "throw"))
                /\ UNCHANGED <<hCallbacks, hPending, toWebview>>
           ELSE /\ hCallbacks' = Registered(hCallbacks, method, args)
                /\ hPending' = Put(hPending, id, n)
                /\ toWebview' = snd.q
                /\ calls' = Append(calls, IF snd.thrown
                                          THEN Settle(c, "rejected", StrV(snd.e), "throw")
                                          ELSE c)
        /\ UNCHANGED <<rev, now, destroyed, webview, isWebViewReady, handlers, regLog,
                       clientVars, toHost, tasks, fired, unhandled>>

\* handleResponse / handleError / handleCallback on the host.  The first
\* definition returns early on a falsy id or callbackId.
HostHandle(message) ==
    LET known == message.id.k = "str" /\ message.id.s \in DOMAIN hPending
        n     == hPending[message.id.s]
        cbOk  == message.callbackId.k = "str" /\ message.callbackId.s \in DOMAIN hCallbacks
    IN  CASE message.type = T_response /\ known /\ ~(rev = 1 /\ ~Truthy(message.id)) ->
               /\ calls' = Removed([calls EXCEPT ![n] =
                               [Settle(@, "resolved", message.result, "response")
                                   EXCEPT !.fires = @ + 1]],
                               hPending, message.id.s)
               /\ hPending' = Del(hPending, message.id.s)
               /\ UNCHANGED fired
          [] message.type = T_error /\ known /\ ~(rev = 1 /\ ~Truthy(message.id)) ->
               /\ calls' = Removed([calls EXCEPT ![n] =
                               [Settle(@, "rejected", StrV(ErrText(message.error)), "error")
                                   EXCEPT !.fires = @ + 1]],
                               hPending, message.id.s)
               /\ hPending' = Del(hPending, message.id.s)
               /\ UNCHANGED fired
          [] message.type = T_callback /\ cbOk /\ ~(rev = 1 /\ ~Truthy(message.callbackId)) ->
               \* try { await callback(...(args || [])) } catch: a throw and a
               \* rejection are both caught
               /\ fired' = Append(fired, [side |-> "h", f |-> hCallbacks[message.callbackId.s],
                                          callbackId |-> message.callbackId.s,
                                          args |-> IF message.args.k = "arr"
                                                   THEN message.args.a ELSE <<>>,
                                          escaped |-> FALSE])
               /\ UNCHANGED <<hPending, calls>>
          [] OTHER -> UNCHANGED <<hPending, calls, fired>>

\* The function bound as ipc_send receives the next payload: JSON.parse inside
\* try / catch, then handleMessage.  A Call runs handleCall up to the first
\* await of the handler.
HDeliver ==
    /\ toHost # <<>>
    /\ toHost' = Tail(toHost)
    /\ LET message == Parse(Head(toHost))
       IN  IF message = Throw
           THEN UNCHANGED <<hPending, calls, fired, tasks, toWebview, unhandled>>
           ELSE IF IsScalar(message)
           THEN \* handleMessage(null) throws at message.type: its promise, which
                \* nobody awaits, rejects; a number has no type and is ignored
                /\ unhandled' = unhandled + (IF message = Null THEN 1 ELSE 0)
                /\ UNCHANGED <<hPending, calls, fired, tasks, toWebview>>
           ELSE IF message.type = T_call
           THEN IF CallGuard(message)
                THEN UNCHANGED <<hPending, calls, fired, tasks, toWebview, unhandled>>
                ELSE LET r == handleCall(message, toWebview)
                     IN  /\ tasks' = Append(tasks, r.t)
                         /\ toWebview' = r.q
                         /\ unhandled' = unhandled + (IF r.t.escaped THEN 1 ELSE 0)
                         /\ UNCHANGED <<hPending, calls, fired>>
           ELSE /\ HostHandle(message)
                /\ UNCHANGED <<tasks, toWebview, unhandled>>
    /\ UNCHANGED <<rev, now, ops, destroyed, webview, isWebViewReady, handlers, hCallbacks,
                   regLog, clientVars>>

\* A resumption that looks the handler up again: a Call whose method is no
\* longer registered is abandoned without an answer.
HResumeLookup(n) ==
    /\ tasks[n].phase \in {"suspended", "detached"}
    /\ LET r == IF HasHandler(tasks[n].method)
                THEN Exec(tasks[n], toWebview)
                ELSE [t |-> [tasks[n] EXCEPT !.phase = "done", !.prog = <<>>,
                                             !.outcome = IF @ = "running" THEN "cancelled" ELSE @],
                      q |-> toWebview]
       IN  /\ tasks' = [tasks EXCEPT ![n] = r.t]
           /\ toWebview' = r.q
           /\ unhandled' = unhandled + (IF r.t.escaped \/ r.t.uncaught THEN 1 ELSE 0)
    /\ UNCHANGED <<rev, now, ops, destroyed, hostVars, clientVars, toHost, calls, fired>>

\* The handler of task n resumes after an await (or a detached timer of it
\* runs) and goes on to its next await or its end.
HResume(n) ==
    /\ tasks[n].phase \in {"suspended", "detached"}
    /\ LET r == Exec(tasks[n], toWebview)
       IN  /\ tasks' = [tasks EXCEPT ![n] = r.t]
           /\ toWebview' = r.q
           /\ unhandled' = unhandled + (IF r.t.escaped \/ r.t.uncaught THEN 1 ELSE 0)
    /\ UNCHANGED <<rev, now, ops, destroyed, hostVars, clientVars, toHost, calls, fired>>

(***************************************************************************)
(* Page scripts outside the client: they can call the bound ipc_send and   *)
(* the global ipc_onmessage themselves.                                    *)
(***************************************************************************)
Ghost == <<"msg_ghost">>

\* Payloads that are no message: text that is no JSON, the JSON texts null
\* and 7, and a message of a type nobody knows.
Malformed ==
    {Garbage, Null, Num(7),
     Stringify(Message(StrV(Ghost), T_ping, Undef, Undef, Undef, Undef, Undef))}

\* Call messages that lack a part: { id: "", type: "call", method: "echo",
\* args: [1] } with an empty id, and { id, type: "call", args: [] } without a
\* method.
Incomplete ==
    {Stringify(Message(StrV(<<>>), T_call, StrV(M_echo), Arr(<<Num(1)>>), Undef, Undef, Undef)),
     Stringify(Message(StrV(Ghost), T_call, Undef, Arr(<<>>), Undef, Undef, Undef))}

\* What a page script hands to ipc_send: a reply to a call of the host (the
\* client script answers none), a reply with an id no call has, a Callback
\* for a function the host holds, a payload that is no message, or a Call
\* that lacks its id or its method.
PageTexts ==
    LET ids == {calls[i].id : i \in Side("h")} \cup {Ghost}
    IN  {Stringify(ResponseMsg(StrV(id), Num(7))) : id \in ids}
        \cup {Stringify(ErrorMsg(StrV(id), <<"refused">>)) : id \in ids}
        \cup {Stringify(CallbackMsg(<<"page">>, StrV(cb), <<Num(5)>>)) : cb \in DOMAIN hCallbacks}
        \cup Malformed
        \cup Incomplete

\* The page answers the Call of call n of the host, which its handleMessage
\* was given, by a Response whose result names the call.
PageAnswer(n) ==
    /\ booted /\ ~destroyed /\ BridgeReady
    /\ calls[n].side = "h" /\ calls[n].state = "pending"
    /\ StrV(calls[n].id) \in wCalled
    /\ toHost = <<>>
    /\ toHost' = <<Stringify(ResponseMsg(StrV(calls[n].id), Num(n)))>>
    /\ UNCHANGED <<rev, now, ops, destroyed, hostVars, clientVars, toWebview, calls, tasks,
                   fired, unhandled>>

PageSend(text) ==
    /\ booted /\ ~destroyed /\ BridgeReady
    /\ ops < MaxOps
    /\ toHost' = Append(toHost, text)
    /\ ops' = ops + 1
    /\ UNCHANGED <<rev, now, destroyed, hostVars, clientVars, toWebview, calls, tasks,
                   fired, unhandled>>

\* What reaches ipc_onmessage besides the host's scripts: a duplicate reply
\* for a call that is already settled, or a reply with an id no call has.
StrayTexts ==
    LET ids == {calls[i].id : i \in {j \in Side("w") : calls[j].state # "pending"}}
               \cup {Ghost}
    IN  {Stringify(ResponseMsg(StrV(id), Num(7))) : id \in ids}
        \cup {Stringify(ErrorMsg(StrV(id), <<"refused">>)) : id \in ids}
        \cup Malformed

Stray(text) ==
    /\ booted /\ ~destroyed
    /\ ops < MaxOps
    /\ ops' = ops + 1
    /\ ClientOnMessage(text)
    /\ UNCHANGED <<rev, now, destroyed, hostVars, booted, idCounter, toHost,
                   toWebview, tasks, unhandled>>

Next ==
    \/ Tick
    \/ Boot
    \/ Destroy
    \/ \E in \in WInputs : WCall(in[1], in[2])
    \/ \E n \in DOMAIN calls : WTimeout(n)
    \/ WDeliver
    \/ \E p \in Registrable : register(p[1], p[2])
    \/ \E method \in DOMAIN handlers \cup {M_missing} : unregister(method)
    \/ clear
    \/ \E in \in HInputs, r \in Rnd : call(in[1], in[2], r)
    \/ HDeliver
    \/ \E n \in DOMAIN tasks : HResume(n)
    \/ \E n \in DOMAIN calls : PageAnswer(n)
    \/ \E text \in PageTexts : PageSend(text)
    \/ \E text \in StrayTexts : Stray(text)

Spec == Init /\ [][Next]_vars

(***************************************************************************)
(* Properties.                                                             *)
(***************************************************************************)
\* JSON.parse(JSON.stringify(v)): what a value is after it crossed the wire.
JsonImage(v) == TreeMap("unquote", ToJson(v, FALSE))

\* The tasks that dispatched the Call of call n.
TasksOf(n) == {k \in DOMAIN tasks : tasks[k].id = StrV(calls[n].id)}

\* The script that carries the Response of task k is still waiting to run.
ResponseInFlight(k) ==
    \E i \in DOMAIN toWebview :
        toWebview[i] = MsgMap("escape", Stringify(ResponseMsg(tasks[k].id, tasks[k].ret)))

\* The task sent a Response and the webview has run its script.
ResponseRan(k) ==
    /\ \E i \in DOMAIN tasks[k].sent : tasks[k].sent[i].type = "response"
    /\ ~ResponseInFlight(k)

C2_OneCompletion ==
    \A k \in DOMAIN tasks :
        /\ Len(tasks[k].sent) <= 1
        /\ Cardinality({i \in DOMAIN toWebview :
               /\ toWebview[i].id = tasks[k].id
               /\ toWebview[i].type \in {T_response, T_error}})
              <= Cardinality({j \in DOMAIN tasks : tasks[j].id = tasks[k].id})

\* Two Calls were dispatched; one was answered by a Response and the other,
\* whose handler threw, by an Error.
C2_Witness ==
    \E j, k \in DOMAIN tasks :
        /\ j # k
        /\ tasks[j].outcome = "returned" /\ Len(tasks[j].sent) = 1
        /\ tasks[j].sent[1].type = "response"
        /\ tasks[k].outcome = "threw" /\ Len(tasks[k].sent) = 1
        /\ tasks[k].sent[1].type = "error"

\* this.pendingCalls of the side of call n
PendingOf(n) == IF calls[n].side = "w" THEN wPending ELSE hPending

\* The pending entry call n set is still in the table of its side.
HasEntry(n) == calls[n].id \in DOMAIN PendingOf(n) /\ PendingOf(n)[calls[n].id] = n

\* C3: the pending entry of a call is deleted at most once, and once when a
\* Response, an Error or the timeout settled the call (the entry is gone
\* then); the call's resolve / reject functions are invoked at most once in
\* all, in every order of Response, Error, duplicates and timeout.
C3_RemovedOnce ==
    \A n \in DOMAIN calls :
        /\ calls[n].removed <= 1
        /\ calls[n].fires <= 1
        /\ calls[n].by \in {"response", "error", "timeout"} =>
              /\ calls[n].removed = 1
              /\ calls[n].fires = 1
              /\ ~HasEntry(n)

\* A call timed out and the Response of its task ran in the webview later.
C3_Witness ==
    \E n \in Side("w") : \E k \in TasksOf(n) :
        /\ calls[n].by = "timeout" /\ calls[n].timer = "fired"
        /\ ResponseRan(k)
        /\ calls[n].removed = 1 /\ calls[n].fires = 1

\* C4: every call() that set a pending entry, on the host as on the webview,
\* started a timeout with it; and when its timeout window has passed with no
\* Response or Error for it and no timer is left to run, the call is rejected
\* with the timeout error and its entry is gone.
C4_TimeoutStarted ==
    \A n \in DOMAIN calls :
        /\ HasEntry(n) => calls[n].timer = "armed"
        /\ (now >= calls[n].deadline /\ calls[n].timer # "armed"
               /\ calls[n].by \notin {"response", "error", "throw"})
              => /\ calls[n].state = "rejected" /\ calls[n].value = StrV(E_timeout)
                 /\ ~HasEntry(n)

\* Nothing is left to run in either context: no payload or script waits and
\* no handler is suspended.
Quiet ==
    /\ toHost = <<>> /\ toWebview = <<>>
    /\ \A k \in DOMAIN tasks : tasks[k].phase = "done"

\* C5: a Call delivered to the webview endpoint is answered as one delivered
\* to the host is: when nothing is left to run, the call() of the host whose
\* Call the webview's handleMessage was given is settled.
C5_HostCallAnswered ==
    Quiet => \A n \in Side("h") :
                 StrV(calls[n].id) \in wCalled => calls[n].state # "pending"
\* The script that carries the Error of task k is still waiting to run.
ErrorInFlight(k) ==
    \E i \in DOMAIN toWebview :
        toWebview[i] = MsgMap("escape", Stringify(ErrorMsg(tasks[k].id, tasks[k].sent[1].v.s)))

\* The task sent an Error and the webview has run its script.
ErrorRan(k) ==
    /\ Len(tasks[k].sent) = 1 /\ tasks[k].sent[1].type = "error"
    /\ ~ErrorInFlight(k)

\* The string s has the string sub in it.
Contains(s, sub) ==
    \E i \in 1 .. Len(s) - Len(sub) + 1 : SubSeq(s, i, i + Len(sub) - 1) = sub

\* C6: a Call for a method that is not registered when it is dispatched runs
\* no handler and gets no Response; while the webview exists the dispatcher
\* sends exactly one Error for it and throws nothing; the call never
\* resolves, and once the Error's script has run the call is rejected with a
\* message that has the method's name and "not found" in it, unless its
\* timeout fired first.
C6_NotFound ==
    \A k \in DOMAIN tasks : tasks[k].outcome = "notfound" =>
        /\ tasks[k].impl = "none" /\ tasks[k].proxyLog = <<>>
        /\ \A i \in DOMAIN tasks[k].sent : tasks[k].sent[i].type = "error"
        /\ ~destroyed => Len(tasks[k].sent) = 1 /\ ~tasks[k].escaped
        /\ \A n \in Side("w") : k \in TasksOf(n) =>
              /\ calls[n].state # "resolved"
              /\ ErrorRan(k) =>
                    \/ /\ calls[n].state = "rejected" /\ calls[n].by = "error"
                       /\ Contains(calls[n].value.s, calls[n].method)
                       /\ Contains(calls[n].value.s, <<" not found">>)
                    \/ calls[n].by = "timeout"

\* A call of a method nobody registered was rejected by the Error sent for it.
C6_Witness ==
    \E n \in Side("w") : \E k \in TasksOf(n) :
        /\ calls[n].method = M_missing /\ tasks[k].outcome = "notfound"
        /\ calls[n].state = "rejected" /\ calls[n].by = "error"
        /\ calls[n].value = StrV(<<"Method ", SQ, "missing", SQ, " not found">>)

\* C7: when the handler of a Call threw (or its promise rejected) with
\* message E, no Response is sent for the Call; while the webview exists
\* exactly one Error carrying E is sent; the call never resolves, and once the
\* Error's script has run the call is rejected with exactly E, unless its
\* timeout fired first.
C7_HandlerError ==
    \A k \in DOMAIN tasks : tasks[k].outcome = "threw" =>
        /\ \A i \in DOMAIN tasks[k].sent :
              tasks[k].sent[i].type = "error" /\ tasks[k].sent[i].v = tasks[k].ret
        /\ ~destroyed => Len(tasks[k].sent) = 1
        /\ \A n \in Side("w") : k \in TasksOf(n) =>
              /\ calls[n].state # "resolved"
              /\ ErrorRan(k) =>
                    \/ /\ calls[n].state = "rejected" /\ calls[n].by = "error"
                       /\ calls[n].value = tasks[k].ret
                    \/ calls[n].by = "timeout"

\* riskyOperation threw "Input is required" and the call was rejected with it.
C7_Witness ==
    \E n \in Side("w") : \E k \in TasksOf(n) :
        /\ tasks[k].impl = "riskyOperation" /\ tasks[k].outcome = "threw"
        /\ tasks[k].ret = StrV(E_input)
        /\ calls[n].state = "rejected" /\ calls[n].value = StrV(E_input)

\* The invocations of the functions the page passed to window.ipc.call.
FiredW == {j \in DOMAIN fired : fired[j].side = "w"}

\* Every invocation of a callback proxy: <<task, index in its proxyLog>>.
Proxied == UNION {{k} \X DOMAIN tasks[k].proxyLog : k \in DOMAIN tasks}

\* The function the caller passed where the handler of task k found the
\* proxy with the callback id of entry e.
FnPassed(k, e) ==
    LET n == CHOOSE x \in Side("w") : k \in TasksOf(x)
        i == CHOOSE x \in DOMAIN tasks[k].args : tasks[k].args[x] = Proxy(e.callbackId, k)
    IN  calls[n].args[i].f

\* The arguments the handler passed, as JSON carries them.
Carried(e) == JsonImage(Arr(e.args)).a

\* C8: a function passed to call() is invoked once for every invocation of
\* its proxy, with the arguments the handler passed (as JSON carries them),
\* also after the call settled: when nothing is left to run, each function
\* has been invoked with each argument list as often as its proxies were.
C8_InvokedPerProxy ==
    (Quiet /\ ~destroyed) =>
        LET pairs == {<<fired[j].f, fired[j].args>> : j \in FiredW}
                     \cup {<<FnPassed(p[1], tasks[p[1]].proxyLog[p[2]]),
                              Carried(tasks[p[1]].proxyLog[p[2]])>> : p \in Proxied}
        IN  \A pr \in pairs :
                Cardinality({j \in FiredW : <<fired[j].f, fired[j].args>> = pr})
                = Cardinality({p \in Proxied :
                      <<FnPassed(p[1], tasks[p[1]].proxyLog[p[2]]),
                        Carried(tasks[p[1]].proxyLog[p[2]])>> = pr})

\* The invocations of the page's functions, in order: function and values.
FiredSeq ==
    LET Mine(e) == e.side = "w"
        es == SelectSeq(fired, Mine)
    IN  [j \in DOMAIN es |-> [f |-> es[j].f, args |-> es[j].args]]

\* The invocations of the callback proxies, in the order the handlers made
\* them: the function each proxy stands for and the values, as JSON carries them.
HandedSeq ==
    [j \in 1 .. Cardinality(Proxied) |->
        LET p == CHOOSE x \in Proxied : tasks[x[1]].proxyLog[x[2]].seq = j
            e == tasks[p[1]].proxyLog[p[2]]
        IN  [f |-> FnPassed(p[1], e), args |-> Carried(e)]]

\* The values of the invocations of function f in seq.
ValuesOf(seq, f) ==
    LET Mine(e) == e.f = f
        es == SelectSeq(seq, Mine)
    IN  [j \in DOMAIN es |-> es[j].args]

\* C9: the values a caller's callback function fires with are, in order and
\* without loss or duplicate, the values the handler passed to its proxy (as
\* JSON carries them): always a prefix of them, all of them when nothing is
\* left to run; and when a call is resolved by its Response, the callbacks
\* its handler invoked before it returned have fired.
C9_CallbackSequence ==
    ~destroyed =>
        /\ \A f \in {FiredSeq[j].f : j \in DOMAIN FiredSeq}
                  \cup {HandedSeq[j].f : j \in DOMAIN HandedSeq} :
              LET got    == ValuesOf(FiredSeq, f)
                  handed == ValuesOf(HandedSeq, f)
              IN  /\ Len(got) <= Len(handed) /\ got = SubSeq(handed, 1, Len(got))
                  /\ Quiet => got = handed
        /\ \A n \in Side("w") : \A k \in TasksOf(n) :
              calls[n].by = "response" =>
                  \A i \in 1 .. tasks[k].atReturn :
                      tasks[k].proxyLog[i].seq <= Len(FiredSeq)

\* The operations of log that concern method m.
Concerning(log, m) ==
    {j \in DOMAIN log : log[j].op = "clear" \/ log[j].method = m}

\* The handler the last register(m, h) of log named, "none" when m was never
\* registered or was unregistered or cleared after that.
LastRegistered(log, m) ==
    LET js == Concerning(log, m)
    IN  IF js = {} THEN "none"
        ELSE LET j == CHOOSE x \in js : \A y \in js : y <= x
             IN  IF log[j].op = "register" THEN log[j].impl ELSE "none"

\* C10: after register(m, h1) and register(m, h2) only h2 is active: the
\* registry holds for every method the handler of its last register() and
\* getMethods() has the method; and every Call dispatched invokes the handler
\* that was registered last before the dispatch.
C10_LastRegistration ==
    /\ \A j \in DOMAIN regLog : regLog[j].op = "register" =>
          LET h == LastRegistered(regLog, regLog[j].method)
          IN  h # "none" => /\ hasMethod(regLog[j].method)
                            /\ regLog[j].method \in getMethods
                            /\ handlers[regLog[j].method] = h
    /\ \A k \in DOMAIN tasks :
          tasks[k].method.k = "str" =>
              tasks[k].impl = LastRegistered(SubSeq(regLog, 1, tasks[k].at), tasks[k].method.s)

\* echo was registered with one handler and then with another, and a Call
\* dispatched after that ran the second.
C10_Witness ==
    \E i, j \in DOMAIN regLog : \E k \in DOMAIN tasks :
        /\ i < j /\ j <= tasks[k].at
        /\ regLog[i].op = "register" /\ regLog[j].op = "register"
        /\ regLog[i].method = M_echo /\ regLog[j].method = M_echo
        /\ regLog[i].impl = "echo" /\ regLog[j].impl = "sum"
        /\ tasks[k].method = StrV(M_echo) /\ tasks[k].impl = "sum"
        /\ tasks[k].outcome = "returned"

\* Call n of the host lost its pending entry to clear(): the entry was
\* deleted while nothing settled the call.
Cleared(n) ==
    /\ calls[n].side = "h" /\ calls[n].state = "pending"
    /\ calls[n].removed > 0

\* C11: clear() empties the handler registry (getMethods() is the empty set),
\* the callback registry and the pending-call table in one step and settles no
\* call; and a call whose entry clear() deleted stays pending in every later
\* step, whatever message or timer comes.
C11_ClearFreezes ==
    [][/\ clear => /\ getMethods' = {}
                   /\ hCallbacks' = Empty
                   /\ hPending' = Empty
                   /\ \A n \in DOMAIN calls : calls'[n].state = calls[n].state
       /\ \A n \in DOMAIN calls : Cleared(n) => calls'[n].state = "pending"]_vars

\* A call of the host was pending when clear() ran, the page has answered it
\* since, and the Response is about to be handled.
C11_Witness ==
    \E n \in DOMAIN calls :
        /\ Cleared(n)
        /\ handlers = Empty /\ hPending = Empty
        /\ regLog # <<>> /\ regLog[Len(regLog)].op = "clear"
        /\ toHost = <<Stringify(ResponseMsg(StrV(calls[n].id), Num(n)))>>

\* The payload decodes to a Response or an Error whose id is no key of table.
ReplyWithoutEntry(text, table) ==
    LET m == Parse(text)
    IN  /\ m # Throw /\ ~IsScalar(m)
        /\ m.type \in {T_response, T_error}
        /\ ~(m.id.k = "str" /\ m.id.s \in DOMAIN table)

\* C12: a Response or an Error whose id has no entry in the pending table of
\* the endpoint that receives it is discarded: the step that handles it settles
\* no call, changes no registry, sends no message and raises no error; only
\* the payload is consumed.
C12_UnknownReplyDiscarded ==
    [][/\ (HDeliver /\ ReplyWithoutEntry(Head(toHost), hPending))
            => UNCHANGED <<hostVars, clientVars, calls, tasks, fired, unhandled, toWebview>>
       /\ (/\ WDeliver /\ booted
           /\ ~MsgBad(MsgMap("literal", Head(toWebview)))
           /\ ReplyWithoutEntry(MsgMap("literal", Head(toWebview)), wPending))
            => UNCHANGED <<hostVars, clientVars, calls, tasks, fired, unhandled, toHost>>
       /\ \A text \in StrayTexts :
            (Stray(text) /\ ReplyWithoutEntry(text, wPending))
            => UNCHANGED <<hostVars, clientVars, calls, tasks, fired, unhandled,
                           toHost, toWebview>>]_vars

\* A call of the page timed out, and the Response the host sent for it ran in
\* the webview after that.
C12_Witness ==
    \E n \in Side("w") : \E k \in DOMAIN tasks :
        /\ tasks[k].id = StrV(calls[n].id)
        /\ calls[n].state = "rejected" /\ calls[n].by = "timeout"
        /\ ResponseRan(k)
        /\ booted /\ ~destroyed

\* C13: call() on an endpoint that is not ready (the host constructed without
\* a webview, the client without the ipc_send bridge) fails at once: the call
\* is rejected by the throw of call() itself and is never pending, no Call
\* reaches either transport queue and nothing waits there for later delivery.
C13_NotReadyFailsAtOnce ==
    ~webview =>
        /\ \A n \in DOMAIN calls :
              /\ calls[n].state = "rejected" /\ calls[n].by = "throw"
              /\ calls[n].value \in
                    IF calls[n].side = "w" THEN {StrV(E_bridge)}
                    ELSE IF rev = 1 THEN {StrV(E_notReady)} ELSE {StrV(E_noWebview)}
        /\ toHost = <<>> /\ toWebview = <<>>

\* Without a webview both the host and the page have issued a call.
C13_Witness ==
    /\ ~webview
    /\ \E n \in Side("h") : calls[n].state = "rejected"
    /\ \E n \in Side("w") : calls[n].state = "rejected"

\* C14: the call ids of an endpoint are unique: two calls of one endpoint that
\* are in flight at the same time never have the same id, so every unsettled
\* call that was given a pending entry still has it (no later call's entry
\* replaced it).
C14_UniqueCallIds ==
    \A i, j \in DOMAIN calls :
        (/\ i < j /\ calls[i].side = calls[j].side
         /\ calls[i].state = "pending" /\ calls[j].state = "pending")
        => /\ calls[i].id # calls[j].id
           /\ (calls[i].removed = 0 => HasEntry(i))

\* The callback registry of the endpoint that issues call c.
RegistryOf(c) == IF c.side = "w" THEN wCallbacks ELSE hCallbacks

\* C15: every function argument marshaled by call() gets a fresh callback id:
\* when a call is issued, none of the ids made for its functions is already a
\* key of the callback registry, so the entry of an earlier call is never
\* replaced and a Callback for the earlier call cannot invoke the later
\* call's function.
C15_FreshCallbackIds ==
    [][Len(calls') > Len(calls) =>
          LET c == calls'[Len(calls')]
          IN  \A i \in DOMAIN c.cbIds : c.cbIds[i] \notin DOMAIN RegistryOf(c)]_vars

\* The payload does not parse, or parses to a value that is no message.
Shapeless(text) == Parse(text) = Throw \/ IsScalar(Parse(text))

\* C16: a payload that cannot be parsed, or that parses to a value without a
\* message shape, is dropped by the inbound entry point of either endpoint:
\* the step that receives it changes no registry, no pending table and no
\* call, sends nothing, and lets no exception or unhandled rejection escape;
\* the endpoint is left as it was for the messages that follow.
C16_MalformedDropped ==
    [][/\ (HDeliver /\ Shapeless(Head(toHost)))
            => UNCHANGED <<hostVars, clientVars, calls, tasks, fired, unhandled, toWebview>>
       /\ \A text \in StrayTexts :
            (Stray(text) /\ Shapeless(text))
            => UNCHANGED <<hostVars, clientVars, calls, tasks, fired, unhandled,
                           toHost, toWebview>>]_vars

\* The payload decodes to a message whose type is none of the four.
UnknownType(text) ==
    LET m == Parse(text)
    IN  /\ m # Throw /\ ~IsScalar(m)
        /\ m.type \notin {T_call, T_response, T_error, T_callback}

\* C17: a message whose type is none of call, response, error, callback is
\* ignored by the dispatcher of either endpoint: the step that handles it
\* leaves handlers, callbacks, pending calls and calls unchanged, sends no
\* message and raises no error.
C17_UnknownTypeIgnored ==
    [][/\ (HDeliver /\ UnknownType(Head(toHost)))
            => UNCHANGED <<hostVars, clientVars, calls, tasks, fired, unhandled, toWebview>>
       /\ \A text \in StrayTexts :
            (Stray(text) /\ UnknownType(text))
            => UNCHANGED <<hostVars, clientVars, calls, tasks, fired, unhandled,
                           toHost, toWebview>>]_vars

\* A message of unknown type is the next one the host handles, while the host
\* has handlers, a callback and a pending call.
C17_Witness ==
    /\ toHost # <<>> /\ UnknownType(Head(toHost))
    /\ handlers # Empty /\ hCallbacks # Empty /\ hPending # Empty

\* C18: when a Callback message is dispatched and its callbackId is in the
\* callback registry, any failure of the function invoked, a synchronous
\* throw or a rejected promise, is swallowed by the endpoint: no invocation
\* leaves a failure that nobody caught.
C18_CallbackFailureSwallowed ==
    \A i \in DOMAIN fired : ~fired[i].escaped

\* The payload decodes to a Response or an Error that carries the id.
ReplyFor(text, id) ==
    LET m == Parse(text)
    IN  /\ m # Throw /\ ~IsScalar(m)
        /\ m.type \in {T_response, T_error}
        /\ m.id = StrV(id)

\* This step hands the endpoint that issued call n a reply that carries the id
\* of call n.
ReplyHandled(n) ==
    IF calls[n].side = "h"
    THEN HDeliver /\ ReplyFor(Head(toHost), calls[n].id)
    ELSE \/ /\ WDeliver /\ booted
            /\ ~MsgBad(MsgMap("literal", Head(toWebview)))
            /\ ReplyFor(MsgMap("literal", Head(toWebview)), calls[n].id)
         \/ \E text \in StrayTexts : Stray(text) /\ ReplyFor(text, calls[n].id)

\* C19: with several calls in flight on one endpoint, each Response / Error
\* settles exactly the call whose id it carries: a call is settled by a reply
\* only in a step that handles a reply with the call's id, and a reply that
\* carries the id of a call that is in flight (pending, its entry not removed
\* by clear) settles that call.
C19_ReplySettlesItsCall ==
    [][\A n \in DOMAIN calls :
          /\ (/\ calls[n].state = "pending" /\ calls'[n].state # "pending"
              /\ calls'[n].by \in {"response", "error"})
                => ReplyHandled(n)
          /\ (/\ calls[n].state = "pending" /\ calls[n].removed = 0
              /\ ReplyHandled(n))
                => calls'[n].state # "pending"]_vars

\* The last operation of log that concerns method m is an unregister(m).
UnregisteredLast(log, m) ==
    LET js == Concerning(log, m)
    IN  /\ js # {}
        /\ log[CHOOSE x \in js : \A y \in js : y <= x].op = "unregister"

\* Every Call dispatched while its method was unregistered last ran no
\* handler and was answered by the "not found" Error and by nothing else
\* (by nothing at all when the window was gone).
UnregisteredNotFound ==
    \A k \in DOMAIN tasks :
        (/\ tasks[k].method.k = "str"
         /\ UnregisteredLast(SubSeq(regLog, 1, tasks[k].at), tasks[k].method.s))
        => /\ tasks[k].outcome = "notfound" /\ tasks[k].impl = "none"
           /\ \A i \in DOMAIN tasks[k].sent :
                 /\ tasks[k].sent[i].type = "error"
                 /\ tasks[k].sent[i].v = StrV(NotFoundText(tasks[k].method))
           /\ ~destroyed => Len(tasks[k].sent) = 1

\* C20: unregister(m) removes the handler of m when there is one and changes
\* nothing, without an error, when there is none; after it hasMethod(m) is
\* false, getMethods() does not contain m, and every other method has the
\* handler it had; and a Call for m dispatched afterwards is answered with the
\* "not found" Error.
C20_Unregister ==
    [][/\ \A m \in DOMAIN handlers \cup {M_missing} :
            unregister(m) =>
               /\ ~hasMethod(m)' /\ m \notin getMethods'
               /\ getMethods' = getMethods \ {m}
               /\ \A o \in getMethods' : handlers'[o] = handlers[o]
               /\ m \notin getMethods => handlers' = handlers
               /\ UNCHANGED <<hCallbacks, hPending, calls, tasks, unhandled,
                              toHost, toWebview>>
       /\ UnregisteredNotFound']_vars

\* echo was registered and then unregistered while other methods stayed, and a
\* Call for echo dispatched after that was answered with the "not found"
\* Error.
C20_Witness ==
    \E i, j \in DOMAIN regLog : \E k \in DOMAIN tasks :
        /\ i < j /\ j <= tasks[k].at
        /\ regLog[i].op = "register" /\ regLog[i].method = M_echo
        /\ regLog[j].op = "unregister" /\ regLog[j].method = M_echo
        /\ handlers # Empty
        /\ tasks[k].method = StrV(M_echo) /\ tasks[k].outcome = "notfound"
        /\ tasks[k].sent = <<[type |-> "error", v |-> StrV(NotFoundText(StrV(M_echo)))]>>

\* This step is a call() of either endpoint.
CallIssued == Len(calls') > Len(calls)

\* C21: a callback registry entry, once call() created it, is never removed
\* automatically: every step other than clear() keeps every key of both
\* registries, and every step that is neither clear() nor a call() (a Callback
\* invocation, the Response, Error or timeout of the originating call, any
\* other message) leaves both registries exactly as they were.
C21_CallbacksStay ==
    [][~clear =>
          /\ DOMAIN hCallbacks \subseteq DOMAIN hCallbacks'
          /\ DOMAIN wCallbacks \subseteq DOMAIN wCallbacks'
          /\ ~CallIssued => UNCHANGED <<hCallbacks, wCallbacks>>]_vars

\* A call of the page passed a function, the function was invoked twice, the
\* call has resolved, and the function is still in the registry under its id.
C21_Witness ==
    \E n \in Side("w") : \E i \in DOMAIN calls[n].cbIds :
        /\ calls[n].state = "resolved"
        /\ calls[n].cbIds[i] \in DOMAIN wCallbacks
        /\ \E a, b \in DOMAIN fired :
              /\ a < b
              /\ fired[a].callbackId = calls[n].cbIds[i]
              /\ fired[b].callbackId = calls[n].cbIds[i]

\* The handler of task k failed, or its method had no handler.
Failed(k) == tasks[k].outcome \in {"threw", "notfound"}

\* Every Call whose handling has ended was answered by one Response or Error.
AnsweredOnce(k) ==
    tasks[k].outcome # "running" =>
        /\ Len(tasks[k].sent) = 1
        /\ tasks[k].outcome = "returned" /\ ToJson(tasks[k].ret, FALSE) # Throw
              => tasks[k].sent[1] = [type |-> "response", v |-> tasks[k].ret]
        /\ ~tasks[k].escaped

\* C22: a handler failure or a missing method does not get past the
\* dispatcher.  The step in which the Call of task k fails leaves the handler
\* registry, the callback registry and the pending table of the dispatching
\* endpoint unchanged and, while the window exists, raises nothing; and once
\* some Call has failed, every other Call, dispatched before or after it, is
\* still answered by its one Response or Error while the window exists.
C22_FailureContained ==
    [][/\ \A k \in DOMAIN tasks' :
            (/\ Failed(k)'
             /\ (k \in DOMAIN tasks => tasks[k].outcome = "running"))
            => /\ UNCHANGED hostVars
               /\ ~destroyed => unhandled' = unhandled /\ ~tasks'[k].escaped
       /\ (~destroyed =>
             \A k1, k2 \in DOMAIN tasks : (k1 # k2 /\ Failed(k1)) => AnsweredOnce(k2))']_vars

\* The handler of a Call threw, and a Call dispatched after that was answered
\* with a Response.
C22_Witness ==
    \E k1, k2 \in DOMAIN tasks :
        /\ k1 < k2 /\ tasks[k1].outcome = "threw"
        /\ tasks[k2].outcome = "returned"
        /\ Len(tasks[k2].sent) = 1 /\ tasks[k2].sent[1].type = "response"
        /\ handlers # Empty

\* Call n was rejected by its timeout.
TimedOut(n) == calls[n].by = "timeout"

\* C23: the expiry of a call's timeout sends nothing: the step of the timer
\* leaves both transport queues, the host and every handler task unchanged.
\* The handler of the call still runs to its end and its one Response or Error
\* is sent with the id of the call (while the window exists); the step in
\* which that reply arrives changes no call and nothing of the client; and the
\* call stays rejected with the timeout error.
C23_TimeoutIsLocal ==
    [][/\ \A n \in DOMAIN calls :
            /\ WTimeout(n) => UNCHANGED <<toHost, toWebview, tasks, hostVars, fired, unhandled>>
            /\ (/\ TimedOut(n) /\ WDeliver /\ booted
                /\ ~MsgBad(MsgMap("literal", Head(toWebview)))
                /\ ReplyFor(MsgMap("literal", Head(toWebview)), calls[n].id))
                 => UNCHANGED <<calls, clientVars>>
       /\ (\A n \in DOMAIN calls : TimedOut(n) =>
             /\ calls[n].state = "rejected" /\ calls[n].value = StrV(E_timeout)
             /\ \A k \in TasksOf(n) :
                   (tasks[k].outcome # "running" /\ ~destroyed) => Len(tasks[k].sent) = 1)']_vars

\* A call timed out while its Call was not yet answered; the handler returned
\* after that, and the Response it sent has run in the webview: the call is
\* still rejected with the timeout error.
C23_Witness ==
    \E n \in Side("w") : \E k \in TasksOf(n) :
        /\ TimedOut(n) /\ calls[n].value = StrV(E_timeout)
        /\ tasks[k].outcome = "returned"
        /\ tasks[k].sent = <<[type |-> "response", v |-> tasks[k].ret]>>
        /\ ~ResponseInFlight(k)
        /\ ~destroyed

\* C24: call() registers the pending entry of the call before it hands the
\* Call to the transport: at the end of every step in which a call() placed
\* its Call in a transport queue, the pending table of the caller holds the
\* call's id and the entry is the one of this call, so that no reply, which
\* can only be handled in a later step, comes before the entry.
C24_EntryBeforeSend ==
    [][CallIssued =>
          LET n     == Len(calls) + 1
              c     == calls'[n]
              table == IF c.side = "w" THEN wPending' ELSE hPending'
          IN  (IF c.side = "w" THEN toHost' # toHost ELSE toWebview' # toWebview)
              => c.id \in DOMAIN table /\ table[c.id] = n]_vars

\* A call of the page and a call of the host are pending, their Calls are in
\* the transport queues, not yet delivered, and both have their entries.
C24_Witness ==
    /\ \E n \in Side("w") :
          /\ calls[n].state = "pending" /\ HasEntry(n)
          /\ \E i \in DOMAIN toHost :
                /\ ~Shapeless(toHost[i])
                /\ Parse(toHost[i]).type = T_call
                /\ Parse(toHost[i]).id = StrV(calls[n].id)
    /\ \E n \in Side("h") :
          /\ calls[n].state = "pending" /\ HasEntry(n)
          /\ toWebview # <<>>

\* The Call this call() step placed in the transport, as the other side will
\* parse it.
PlacedCall ==
    IF Len(toHost') > Len(toHost)
    THEN Parse(toHost'[Len(toHost')])
    ELSE Parse(MsgMap("literal", toWebview'[Len(toWebview')]))

\* A function somewhere inside a value that is no function itself.
RECURSIVE HasNestedFn(_)
HasNestedFn(v) ==
    CASE v.k = "obj" -> \E p \in {v.cb, v.id, v.x} : p.k = "fn" \/ HasNestedFn(p)
      [] v.k = "arr" -> \E i \in DOMAIN v.a : v.a[i].k = "fn" \/ HasNestedFn(v.a[i])
      [] OTHER -> FALSE

\* C25: marshaling in call() replaces exactly the top-level arguments that
\* are functions: the Call that was sent has as many arguments as the call,
\* at the position of a function the token {__callback: true, id} whose id
\* maps to that function in the callback registry, and at every other
\* position the argument itself (as JSON carries it); the registry gained the
\* ids of the top-level functions and nothing else, so a function nested in
\* an object or an array got no token and no entry.
C25_TopLevelMarshaling ==
    [][(CallIssued /\ (toHost' # toHost \/ toWebview' # toWebview)) =>
          LET c    == calls'[Len(calls) + 1]
              reg  == IF c.side = "w" THEN wCallbacks  ELSE hCallbacks
              reg2 == IF c.side = "w" THEN wCallbacks' ELSE hCallbacks'
              sent == PlacedCall.args.a
          IN  /\ Len(sent) = Len(c.args)
              /\ \A i \in DOMAIN c.args :
                    IF c.args[i].k = "fn"
                    THEN /\ sent[i] = Obj(BoolV(TRUE), StrV(c.cbIds[i]), Undef)
                         /\ c.cbIds[i] \in DOMAIN reg2
                         /\ reg2[c.cbIds[i]] = c.args[i].f
                    ELSE sent[i] = TreeMap("unquote", ToJson(c.args[i], TRUE))
              /\ DOMAIN reg2 = DOMAIN reg \cup {c.cbIds[i] : i \in DOMAIN c.cbIds}
              /\ DOMAIN c.cbIds = {i \in DOMAIN c.args : c.args[i].k = "fn"}]_vars

\* The page made a call with an array and a function at top level, and a call
\* with an object that has a function nested in it: the first has its
\* registry entry, the second made none, and the Call of the second is in the
\* transport.
C25_Witness ==
    \E n, m \in Side("w") :
        /\ \E i, j \in DOMAIN calls[n].args :
              /\ calls[n].args[i].k = "arr" /\ calls[n].args[j].k = "fn"
              /\ calls[n].cbIds[j] \in DOMAIN wCallbacks
        /\ \E i \in DOMAIN calls[m].args : HasNestedFn(calls[m].args[i])
        /\ DOMAIN calls[m].cbIds = {}
        /\ Cardinality(DOMAIN wCallbacks) = 1
        /\ \E i \in DOMAIN toHost :
              /\ ~Shapeless(toHost[i])
              /\ Parse(toHost[i]).id = StrV(calls[m].id)

\* { __callback: true, id: <string> }, the shape of a callback token.
TokenShape(v) == v.k = "obj" /\ v.cb = BoolV(TRUE) /\ v.id.k = "str"

\* C26: when a Call is dispatched, an argument is replaced by a callback proxy
\* if and only if it has the token shape (an object with __callback === true
\* and a string id); every other argument, an object with merely truthy
\* __callback and id included, reaches the handler as it came.
C26_TokenDetection ==
    \A n \in Side("w") : \A k \in TasksOf(n) :
        \A i \in DOMAIN tasks[k].args :
            LET sent == TreeMap("unquote", ToJson(
                            IF calls[n].args[i].k = "fn"
                            THEN Token(calls[n].cbIds[i]) ELSE calls[n].args[i], TRUE))
            IN  IF TokenShape(sent)
                THEN tasks[k].args[i] = Proxy(sent.id, k)
                ELSE tasks[k].args[i] = sent

\* C27: when call() failed because the endpoint was not ready or the send
\* threw, the endpoint is as it was before the call: the failed call has no
\* entry in the pending table, none of the callback ids made for it is in the
\* callback registry, and no timer of it is left running.
C27_FailedCallLeavesNothing ==
    \A n \in DOMAIN calls : calls[n].by = "throw" =>
        /\ ~HasEntry(n)
        /\ calls[n].timer # "armed"
        /\ \A i \in DOMAIN calls[n].cbIds : calls[n].cbIds[i] \notin DOMAIN RegistryOf(calls[n])

\* C28: in every reachable state the pending table of an endpoint holds only
\* ids of calls that this endpoint issued and whose promise is unsettled: each
\* entry belongs to a call of that side with that id that is still pending,
\* and a call that has resolved or rejected, for whatever reason, has no entry.
C28_PendingOnlyUnsettled ==
    /\ \A id \in DOMAIN hPending :
          LET n == hPending[id]
          IN  /\ n \in Side("h") /\ calls[n].id = id
              /\ calls[n].state = "pending"
    /\ \A id \in DOMAIN wPending :
          LET n == wPending[id]
          IN  /\ n \in Side("w") /\ calls[n].id = id
              /\ calls[n].state = "pending"
    /\ \A n \in DOMAIN calls : calls[n].state # "pending" => ~HasEntry(n)

\* The position of the first return or throw of a handler's program.
EndOf(prog) ==
    CHOOSE i \in DOMAIN prog :
        /\ prog[i].op \in {"return", "throw"}
        /\ \A j \in 1 .. i - 1 : prog[j].op \notin {"return", "throw"}

\* Task k ended as the program of the handler that was looked up when its
\* Call was dispatched ends: with that return value or that error.
EndedAsLookedUp(k) ==
    LET prog == Program(tasks[k].impl, tasks[k].args)
        e    == prog[EndOf(prog)]
    IN  IF e.op = "return"
        THEN tasks[k].outcome = "returned" /\ tasks[k].ret = e.v
        ELSE tasks[k].outcome = "threw" /\ tasks[k].ret = StrV(e.e)

\* Every callback the looked-up handler of task k invokes before it ends is
\* a proxy, so that no invocation fails inside the handler.
CallbacksAreProxies(k) ==
    LET prog == Program(tasks[k].impl, tasks[k].args)
    IN  \A j \in 1 .. EndOf(prog) - 1 :
            prog[j].op = "cb" => Arg(tasks[k].args, prog[j].i).k = "proxy"

\* The registry was changed after the Call of task k was dispatched.
ChangedSince(k) == Len(regLog) > tasks[k].at

IncompleteCall(text) ==
    LET m == Parse(text)
    IN  /\ m # Throw /\ ~IsScalar(m)
        /\ m.type = T_call
        /\ ~Truthy(m.id) \/ ~Truthy(m.method)

\* C30: a Call with an empty or missing id or method is dropped by the host
\* dispatcher: the step that receives it starts no handler, sends no Response
\* and no Error, and leaves the registries, the pending table and the calls
\* as they were.
C30_IncompleteCallDropped ==
    [][(HDeliver /\ IncompleteCall(Head(toHost)))
          => UNCHANGED <<tasks, toWebview, unhandled, hostVars, calls, fired>>]_vars
====
